---- MODULE Spec2Model ----
(***************************************************************************)
(* Model of rusty_weather (src/src/main.rs): one process run of the CLI.   *)
(* Strings are sequences of characters; a character is a one-element name  *)
(* ("a", " ", "\n") or a code point name ("U+00FC") for a non-ASCII one.   *)
(***************************************************************************)
EXTENDS Integers, Sequences, FiniteSets, TLC

\* ---------------------------------------------------------------- bounds
MaxLineLen == 3      \* longest line body typed at a setup prompt
MaxCoord   == 1      \* latitudes / longitudes range over 0..MaxCoord
MaxCityLen == 4      \* longest city name (in characters) in a response

\* ------------------------------------------------------------ characters
Whitespace == {" ", "\n", "\t", "\r"}
LineChars  == {" ", "a"}
CityChars  == {"a", "U+00FC"}

\* number of bytes of the UTF-8 encoding of one character
Utf8Len(c) == IF c = "U+00FC" THEN 2 ELSE 1

Imperial == <<"i","m","p","e","r","i","a","l">>
Metric   == <<"m","e","t","r","i","c">>
Unknown  == <<"U","n","k","n","o","w","n">>

Max(a, b) == IF a >= b THEN a ELSE b

\* ------------------------------------------------------- string helpers
\* str::len: length in bytes
RECURSIVE StrLen(_)
StrLen(s) == IF s = <<>> THEN 0 ELSE Utf8Len(Head(s)) + StrLen(Tail(s))

\* str::chars().count(): what the formatter measures against a width
CharCount(s) == Len(s)

is_empty(s) == StrLen(s) = 0

RECURSIVE TrimStart(_)
TrimStart(s) ==
    IF s # <<>> /\ Head(s) \in Whitespace THEN TrimStart(Tail(s)) ELSE s

RECURSIVE TrimEnd(_)
TrimEnd(s) ==
    IF s # <<>> /\ s[Len(s)] \in Whitespace
    THEN TrimEnd(SubSeq(s, 1, Len(s) - 1)) ELSE s

\* str::trim
Trim(s) == TrimEnd(TrimStart(s))

Spaces(n) == [i \in 1..n |-> " "]

\* format!("{:^width$}", s): pad to width characters, never truncate,
\* the odd space goes to the right
Center(s, width) ==
    IF CharCount(s) >= width THEN s
    ELSE LET pad  == width - CharCount(s)
             left == pad \div 2
         IN  Spaces(left) \o s \o Spaces(pad - left)

\* ------------------------------------------------------------ prompting
\* the value prompt_update returns for a line read from standard input
prompt_update_untrimmed(current, input) ==
    IF is_empty(Trim(input)) THEN current ELSE input

prompt_update(current, input) ==
    LET trimmed == Trim(input)
    IN  IF is_empty(trimmed) THEN current ELSE trimmed

\* lines read_line can deliver: a body, with the newline or (at end of
\* input) without it
Bodies == UNION {[1..n -> LineChars] : n \in 0..MaxLineLen}
InputLines == Bodies \cup {b \o <<"\n">> : b \in Bodies}

\* --------------------------------------------------------------- config
Coords == 0..MaxCoord

DefaultConfig ==
    [api_key |-> <<>>, latitude |-> 0, longitude |-> 0, units |-> Imperial]

StoredKeys == {<<>>, <<"k">>}
StoredConfigs ==
    [api_key : StoredKeys, latitude : Coords, longitude : Coords,
     units : {Imperial, Metric}]

\* the file at config.yaml: absent, unreadable as a Config, or a document
NoFile      == [exists |-> FALSE, valid |-> FALSE, doc |-> DefaultConfig]
CorruptFile == [exists |-> TRUE,  valid |-> FALSE, doc |-> DefaultConfig]
FileOf(c)   == [exists |-> TRUE,  valid |-> TRUE,  doc |-> c]
Files == {NoFile, CorruptFile} \cup {FileOf(c) : c \in StoredConfigs}

\* Args.zip : Option<String>
NoZip   == [some |-> FALSE, val |-> <<>>]
ZipArgs == {NoZip, [some |-> TRUE, val |-> <<"9">>]}

\* ------------------------------------------------------------ presenter
weather_art(label) ==
    CASE label = "Clear" ->
           <<<<" ","\\"," ","|"," ","/"," ">>,
             <<"-"," ","("," ",")"," ","-">>,
             <<" ","/"," ","|"," ","\\"," ">>,
             <<" "," "," "," "," "," "," ">>>>
      [] label = "Clouds" ->
           <<<<" "," "," "," ",".","-","."," "," "," ">>,
             <<" ",".","-","("," "," "," ",")","."," ">>,
             <<"(","_","_","_","_","_","_","_","_",")">>,
             <<" "," "," "," "," "," "," "," "," "," ">>>>
      [] label = "Rain" ->
           <<<<"'"," ","'","'"," ","'">>,
             <<" ","'"," ","'","'"," ">>,
             <<"'","'"," "," ","'"," ">>,
             <<" "," "," "," "," "," ">>>>
      [] label = "Snow" ->
           <<<<"*"," "," ","*"," ","*">>,
             <<" ","*"," "," ","*"," ">>,
             <<"*"," ","*"," "," ","*">>,
             <<" "," "," "," "," "," ">>>>
      [] OTHER ->
           <<<<" "," "," ">>, <<" "," "," ">>, <<" "," "," ">>, <<" "," "," ">>>>

Labels == {"Clear", "Clouds", "Rain", "Snow", "Mist"}
Cities == UNION {[1..n -> CityChars] : n \in 0..MaxCityLen}

\* the fields of a weather response print_weather_info looks at
Responses ==
    [has_name : {TRUE}, name : Cities, has_main : {TRUE}, main : Labels]
      \cup [has_name : {FALSE}, name : {<<>>}, has_main : {TRUE}, main : Labels]
      \cup [has_name : {TRUE}, name : Cities, has_main : {FALSE}, main : {""}]

json_city(json)        == IF json.has_name THEN json.name ELSE Unknown
json_description(json) == IF json.has_main THEN json.main ELSE "Unknown"

display_width(art, city) == Max(StrLen(art[4]), StrLen(city))

\* the four rows print_weather_info prints: left segment, label, JSON field
print_weather_info(json) ==
    LET city  == json_city(json)
        art   == weather_art(json_description(json))
        width == display_width(art, city)
    IN  <<[left |-> Center(art[1], width), label |-> "Temperature",
           field |-> "main.temp"],
          [left |-> Center(art[2], width), label |-> "Min",
           field |-> "main.temp_max"],
          [left |-> Center(art[3], width), label |-> "Max",
           field |-> "weather[0].temp_min"],
          [left |-> Center(city, width), label |-> "Wind Speed",
           field |-> "wind.speed"]>>


\* ---------------------------------------------------------------- state
VARIABLES
    pc,        \* position in main / update_config
    args,      \* parsed Args: [setup, zip]
    file,      \* the file at config.yaml
    config,    \* main's Config (meaningful once pc # "load")
    zip_code,  \* update_config's local
    input,     \* prompt_update's local: the line read last
    lat, lon,  \* main's locals
    json,      \* the weather response handed to print_weather_info
    report,    \* the rows print_weather_info printed
    exitCode,  \* process exit status, -1 while running
    reads,     \* times config.yaml was opened for reading
    writes,    \* times config.yaml was opened for writing (created/truncated)
    tty,       \* prompts shown, the value shown and the value returned
    http,      \* outbound HTTP calls, in order
    stdout, stderr

vars == <<pc, args, file, config, zip_code, input, lat, lon, json, report, exitCode,
          reads, writes, tty, http, stdout, stderr>>

NoResponse == [has_name |-> FALSE, name |-> <<>>, has_main |-> FALSE, main |-> ""]

Init ==
    /\ pc = "load"
    /\ args \in [setup : BOOLEAN, zip : ZipArgs]
    /\ file \in Files
    /\ config = DefaultConfig
    /\ zip_code = <<>>
    /\ input = <<>>
    /\ lat = 0 /\ lon = 0
    /\ json = NoResponse
    /\ report = <<>>
    /\ exitCode = -1
    /\ reads = 0 /\ writes = 0
    /\ tty = <<>> /\ http = <<>>
    /\ stdout = <<>> /\ stderr = <<>>

\* process termination with a status
Exit(code) == pc' = "done" /\ exitCode' = code

\* one outbound request and whether it produced an Ok value
GeocodeCall(zc, key, ok, res) ==
    [call |-> "geocode", zip |-> zc, appid |-> key, lat |-> 0, lon |-> 0,
     units |-> <<>>, ok |-> ok, res |-> res]
WeatherCall(key, la, lo, units, ok) ==
    [call |-> "weather", zip |-> <<>>, appid |-> key, lat |-> la, lon |-> lo,
     units |-> units, ok |-> ok, res |-> <<>>]

\* ------------------------------------------------- main: load or default
LoadExisting ==
    /\ pc = "load" /\ file.exists /\ file.valid
    /\ reads' = reads + 1
    /\ config' = file.doc
    /\ pc' = "branch"
    /\ UNCHANGED <<args, file, zip_code, input, lat, lon, json, report, exitCode,
                   writes, tty, http, stdout, stderr>>

\* File::open, read_to_string or serde_yaml::from_str fails: `?` returns Err
LoadError ==
    /\ pc = "load" /\ file.exists /\ ~file.valid
    /\ reads' = reads + 1
    /\ stderr' = Append(stderr, "Error: config")
    /\ Exit(1)
    /\ UNCHANGED <<args, file, config, zip_code, input, lat, lon, json, report,
                   writes, tty, http, stdout>>

LoadDefault_writes ==
    /\ pc = "load" /\ ~file.exists
    /\ stdout' = Append(stdout, "Config file not found, creating default...")
    /\ config' = DefaultConfig
    /\ file' = FileOf(DefaultConfig)
    /\ writes' = writes + 1
    /\ pc' = "branch"
    /\ UNCHANGED <<args, zip_code, input, lat, lon, json, report, exitCode,
                   reads, tty, http, stderr>>

LoadDefault ==
    /\ pc = "load" /\ ~file.exists
    /\ stdout' = Append(stdout, "Config file not found, creating default...")
    /\ config' = DefaultConfig
    /\ pc' = "branch"
    /\ UNCHANGED <<args, file, zip_code, input, lat, lon, json, report, exitCode,
                   reads, writes, tty, http, stderr>>

\* ------------------------------------------------------ main: dispatch
EnterSetup ==
    /\ pc = "branch" /\ args.setup
    /\ stdout' = stdout \o <<"Updating configuration...",
                             "Press Enter to keep existing values.">>
    /\ pc' = "prompt_api_key"
    /\ UNCHANGED <<args, file, config, zip_code, input, lat, lon, json, report,
                   exitCode, reads, writes, tty, http, stderr>>

NoApiKey_continues ==
    /\ pc = "branch" /\ ~args.setup /\ is_empty(config.api_key)
    /\ stdout' = Append(stdout, "No API key configured, please run --setup.")
    /\ lat' = config.latitude /\ lon' = config.longitude
    /\ pc' = IF args.zip.some THEN "geocode_zip" ELSE "fetch"
    /\ UNCHANGED <<args, file, config, zip_code, input, json, report, exitCode,
                   reads, writes, tty, http, stderr>>

NoApiKey ==
    /\ pc = "branch" /\ ~args.setup /\ is_empty(config.api_key)
    /\ stdout' = Append(stdout, "No API key configured, please run --setup.")
    /\ Exit(0)
    /\ UNCHANGED <<args, file, config, zip_code, input, lat, lon, json, report,
                   reads, writes, tty, http, stderr>>

UseStored_ignores_setup ==
    /\ pc = "branch" /\ ~is_empty(config.api_key)
    /\ lat' = config.latitude /\ lon' = config.longitude
    /\ pc' = IF args.zip.some THEN "geocode_zip" ELSE "fetch"
    /\ UNCHANGED <<args, file, config, zip_code, input, json, report, exitCode,
                   reads, writes, tty, http, stdout, stderr>>

UseStored ==
    /\ pc = "branch" /\ ~args.setup /\ ~is_empty(config.api_key)
    /\ lat' = config.latitude /\ lon' = config.longitude
    /\ pc' = IF args.zip.some THEN "geocode_zip" ELSE "fetch"
    /\ UNCHANGED <<args, file, config, zip_code, input, json, report, exitCode,
                   reads, writes, tty, http, stdout, stderr>>

\* -------------------------------------------------------- update_config
Prompted(label, current, result, ok) ==
    Append(tty, [prompt |-> label, current |-> current, result |-> result,
                 ok |-> ok])

PromptApiKey ==
    /\ pc = "prompt_api_key"
    /\ \E line \in InputLines :
         /\ input' = line
         /\ config' = [config EXCEPT
                         !.api_key = prompt_update(config.api_key, line)]
    /\ tty' = Prompted("Enter API key", config.api_key, config'.api_key, TRUE)
    /\ pc' = "prompt_units"
    /\ UNCHANGED <<args, file, zip_code, lat, lon, json, report, exitCode,
                   reads, writes, http, stdout, stderr>>

PromptUnits ==
    /\ pc = "prompt_units"
    /\ \E line \in InputLines :
         /\ input' = line
         /\ config' = [config EXCEPT
                         !.units = prompt_update(config.units, line)]
    /\ tty' = Prompted("Enter units", config.units, config'.units, TRUE)
    /\ pc' = "prompt_zip"
    /\ UNCHANGED <<args, file, zip_code, lat, lon, json, report, exitCode,
                   reads, writes, http, stdout, stderr>>

PromptZip_always_geocodes ==
    /\ pc = "prompt_zip"
    /\ \E line \in InputLines :
         /\ input' = line
         /\ zip_code' = prompt_update(<<>>, line)
    /\ tty' = Prompted("Enter ZIP code", <<>>, zip_code', TRUE)
    /\ pc' = "geocode_setup"
    /\ UNCHANGED <<args, file, config, lat, lon, json, report, exitCode,
                   reads, writes, http, stdout, stderr>>

PromptZip ==
    /\ pc = "prompt_zip"
    /\ \E line \in InputLines :
         /\ input' = line
         /\ zip_code' = prompt_update(<<>>, line)
    /\ tty' = Prompted("Enter ZIP code", <<>>, zip_code', TRUE)
    /\ pc' = IF ~is_empty(zip_code') THEN "geocode_setup" ELSE "save"
    /\ UNCHANGED <<args, file, config, lat, lon, json, report, exitCode,
                   reads, writes, http, stdout, stderr>>

PromptLabel ==
    CASE pc = "prompt_api_key" -> "Enter API key"
      [] pc = "prompt_units"   -> "Enter units"
      [] OTHER                 -> "Enter ZIP code"

PromptCurrent ==
    CASE pc = "prompt_api_key" -> config.api_key
      [] pc = "prompt_units"   -> config.units
      [] OTHER                 -> <<>>

\* read_line returns Err (standard input is not valid UTF-8, or the read
\* fails): unwrap panics
PromptPanic ==
    /\ pc \in {"prompt_api_key", "prompt_units", "prompt_zip"}
    /\ tty' = Prompted(PromptLabel, PromptCurrent, PromptCurrent, FALSE)
    /\ stderr' = Append(stderr, "panicked: unwrap on Err")
    /\ Exit(101)
    /\ UNCHANGED <<args, file, config, zip_code, input, lat, lon, json, report,
                   reads, writes, http, stdout>>

SetupGeocodeOk ==
    /\ pc = "geocode_setup"
    /\ \E la \in Coords, lo \in Coords :
         /\ http' = Append(http,
                       GeocodeCall(zip_code, config.api_key, TRUE, <<la, lo>>))
         /\ config' = [config EXCEPT !.latitude = la, !.longitude = lo]
    /\ stdout' = Append(stdout, "Coordinates found")
    /\ pc' = "save"
    /\ UNCHANGED <<args, file, zip_code, input, lat, lon, json, report, exitCode,
                   reads, writes, tty, stderr>>

SetupGeocodeErr_resets ==
    /\ pc = "geocode_setup"
    /\ http' = Append(http, GeocodeCall(zip_code, config.api_key, FALSE, <<>>))
    /\ config' = [config EXCEPT !.latitude = 0, !.longitude = 0]
    /\ stdout' = Append(stdout, "Failed to retrieve coordinates")
    /\ pc' = "save"
    /\ UNCHANGED <<args, file, zip_code, input, lat, lon, json, report, exitCode,
                   reads, writes, tty, stderr>>

SetupGeocodeErr ==
    /\ pc = "geocode_setup"
    /\ http' = Append(http, GeocodeCall(zip_code, config.api_key, FALSE, <<>>))
    /\ stdout' = Append(stdout, "Failed to retrieve coordinates")
    /\ pc' = "save"
    /\ UNCHANGED <<args, file, config, zip_code, input, lat, lon, json, report,
                   exitCode, reads, writes, tty, stderr>>

\* ---------------------------------------------------------- save_config
SaveOk ==
    /\ pc = "save"
    /\ writes' = writes + 1
    /\ file' = FileOf(config)
    /\ stdout' = Append(stdout, "Configuration updated successfully.")
    /\ Exit(0)
    /\ UNCHANGED <<args, config, zip_code, input, lat, lon, json, report,
                   reads, tty, http, stderr>>

\* OpenOptions::open fails: nothing on disk changes, `?` returns Err
SaveOpenErr ==
    /\ pc = "save"
    /\ stderr' = Append(stderr, "Error: open")
    /\ Exit(1)
    /\ UNCHANGED <<args, file, config, zip_code, input, lat, lon, json, report,
                   reads, writes, tty, http, stdout>>

\* open created/truncated the file, write_all fails: the document is lost
SaveWriteErr ==
    /\ pc = "save"
    /\ writes' = writes + 1
    /\ file' = CorruptFile
    /\ stderr' = Append(stderr, "Error: write")
    /\ Exit(1)
    /\ UNCHANGED <<args, config, zip_code, input, lat, lon, json, report,
                   reads, tty, http, stdout>>

\* ------------------------------------------------- main: --zip override
ZipGeocodeOk_persists ==
    /\ pc = "geocode_zip"
    /\ \E la \in Coords, lo \in Coords :
         /\ http' = Append(http,
                       GeocodeCall(args.zip.val, config.api_key, TRUE, <<la, lo>>))
         /\ lat' = la /\ lon' = lo
         /\ config' = [config EXCEPT !.latitude = la, !.longitude = lo]
    /\ pc' = "fetch"
    /\ UNCHANGED <<args, file, zip_code, input, json, report, exitCode,
                   reads, writes, tty, stdout, stderr>>

ZipGeocodeOk ==
    /\ pc = "geocode_zip"
    /\ \E la \in Coords, lo \in Coords :
         /\ http' = Append(http,
                       GeocodeCall(args.zip.val, config.api_key, TRUE, <<la, lo>>))
         /\ lat' = la /\ lon' = lo
    /\ pc' = "fetch"
    /\ UNCHANGED <<args, file, config, zip_code, input, json, report, exitCode,
                   reads, writes, tty, stdout, stderr>>

\* Err(_) => todo!(): the process panics
ZipGeocodeErr ==
    /\ pc = "geocode_zip"
    /\ http' = Append(http,
                  GeocodeCall(args.zip.val, config.api_key, FALSE, <<>>))
    /\ stderr' = Append(stderr, "panicked: not yet implemented")
    /\ Exit(101)
    /\ UNCHANGED <<args, file, config, zip_code, input, lat, lon, json, report,
                   reads, writes, tty, stdout>>

\* ------------------------------------------------ main: fetch and print
FetchOk ==
    /\ pc = "fetch"
    /\ http' = Append(http,
                  WeatherCall(config.api_key, lat, lon, config.units, TRUE))
    /\ \E j \in Responses :
         /\ json' = j
         /\ report' = print_weather_info(j)
    /\ Exit(0)
    /\ UNCHANGED <<args, file, config, zip_code, input, lat, lon,
                   reads, writes, tty, stdout, stderr>>

FetchErr ==
    /\ pc = "fetch"
    /\ http' = Append(http,
                  WeatherCall(config.api_key, lat, lon, config.units, FALSE))
    /\ stderr' = Append(stderr, "Error fetching weather data")
    /\ Exit(0)
    /\ UNCHANGED <<args, file, config, zip_code, input, lat, lon, json, report,
                   reads, writes, tty, stdout>>

Next ==
    \/ LoadExisting \/ LoadError \/ LoadDefault
    \/ EnterSetup \/ NoApiKey \/ UseStored
    \/ PromptApiKey \/ PromptUnits \/ PromptZip \/ PromptPanic
    \/ SetupGeocodeOk \/ SetupGeocodeErr
    \/ SaveOk \/ SaveOpenErr \/ SaveWriteErr
    \/ ZipGeocodeOk \/ ZipGeocodeErr
    \/ FetchOk \/ FetchErr

Spec == Init /\ [][Next]_vars

TypeOK ==
    /\ pc \in {"load", "branch", "prompt_api_key", "prompt_units",
               "prompt_zip", "geocode_setup", "save", "geocode_zip",
               "fetch", "done"}
    /\ exitCode \in {-1, 0, 1, 101}
    /\ (pc = "done") = (exitCode # -1)
    /\ lat \in Coords /\ lon \in Coords
    /\ config.latitude \in Coords /\ config.longitude \in Coords

\* ------------------------------------------------------------ properties
Last(s) == s[Len(s)]

AllWhitespace(s) == \A i \in 1..Len(s) : s[i] \in Whitespace

\* all three setup prompts were answered
PromptsDone == Len(tty) = 3 /\ \A i \in 1..3 : tty[i].ok

\* the run failed on the configuration file or on standard input, not on
\* an outbound HTTP call
LocalIoFailed ==
    \E i \in 1..Len(stderr) :
        stderr[i] \in {"Error: config", "Error: open", "Error: write",
                       "panicked: unwrap on Err"}

\* main holds a Config: loading is over and did not fail
Loaded == pc # "load" /\ (stderr = <<>> \/ stderr[1] # "Error: config")

\* the run started with no file at the config path
FirstRun == pc # "load" /\ reads = 0

\* the geocode call of update_config was made and failed
SetupGeocodeFailed ==
    args.setup /\ http # <<>> /\ http[1].call = "geocode" /\ ~http[1].ok

\* the geocode call for --zip was made and succeeded
ZipOverridden ==
    ~args.setup /\ http # <<>> /\ http[1].call = "geocode" /\ http[1].ok

\* C1: every run that gets past argument parsing and config loading exits
\* with code 0 whatever the outcome of its HTTP calls, also when the
\* geocode call triggered by --zip fails.
C1_ExitCodeAlwaysZero ==
    (pc = "done" /\ ~LocalIoFailed) => exitCode = 0

\* C2: when no file exists at the config path the in-memory Config equals
\* the defaults, and on every such run, also one without --setup, a file
\* holding the four fields exists at the config path when the program exits.
C2_FirstRunLeavesFile ==
    /\ (FirstRun /\ pc = "branch") => config = DefaultConfig
    /\ (FirstRun /\ pc = "done" /\ exitCode = 0) => (file.exists /\ file.valid)

\* C3: in SetupFlow, when the trimmed ZIP input is non-empty and the geocode
\* call fails, latitude and longitude after the step equal their values
\* before it, and the flow returns normally so that the caller saves the
\* Config with the api_key and units chosen in the earlier prompts.
C3_GeocodeFailureKeepsCoordinates ==
    /\ [][(pc = "geocode_setup" /\ http' # http /\ ~Last(http').ok) =>
             /\ ~is_empty(zip_code)
             /\ config'.latitude = config.latitude
             /\ config'.longitude = config.longitude
             /\ config'.api_key = tty[1].result
             /\ config'.units = tty[2].result
             /\ pc' = "save"]_vars
    /\ []((SetupGeocodeFailed /\ pc = "done" /\ exitCode = 0) =>
             /\ file = FileOf(config)
             /\ config.api_key = tty[1].result
             /\ config.units = tty[2].result)

C3_Witness ==
    /\ SetupGeocodeFailed /\ pc = "done" /\ exitCode = 0
    /\ file = FileOf(config)
    /\ config.latitude = 1 /\ config.longitude = 0
    /\ config.api_key = <<"a">> /\ config.units = <<"a", "a">>

\* C4: when --setup is set the program runs SetupFlow, then saves the
\* Config, then exits, and the weather fetch is never called, whether or
\* not the API key is empty and whether or not --zip was given.
C4_SetupNeverFetches ==
    args.setup =>
        /\ \A i \in 1..Len(http) : http[i].call # "weather"
        /\ pc \notin {"geocode_zip", "fetch"}
        /\ report = <<>>
        /\ (pc = "save" \/ writes > 0) => PromptsDone
        /\ (pc = "done" /\ PromptsDone) =>
               (writes = 1 \/ Last(stderr) = "Error: open")
        /\ (pc = "done" /\ exitCode = 0) =>
               (PromptsDone /\ writes = 1 /\ file = FileOf(config))

C4_Witness ==
    /\ args.setup /\ args.zip.some /\ ~is_empty(config.api_key)
    /\ pc = "done" /\ exitCode = 0 /\ writes = 1 /\ http = <<>>

\* C5: when --setup is not set and the loaded api_key is empty, the program
\* prints the run-setup guidance and exits zero without any outbound HTTP
\* call, neither the geocode call (even with --zip) nor the weather fetch.
C5_NoApiKeyNoHttp ==
    (~args.setup /\ Loaded /\ is_empty(config.api_key)) =>
        /\ http = <<>>
        /\ pc \in {"branch", "done"}
        /\ pc = "done" =>
              /\ exitCode = 0
              /\ Last(stdout) = "No API key configured, please run --setup."

C5_Witness ==
    /\ ~args.setup /\ args.zip.some /\ file.exists
    /\ is_empty(config.api_key) /\ pc = "done"

\* C6: in a run without --setup where --zip is supplied and geocoding
\* succeeds, the weather fetch is called with the geocoded coordinates
\* instead of the stored ones, and the override is not persisted: the
\* Config record and the config file are unchanged by the run.
C6_ZipOverrideNotPersisted ==
    /\ [](ZipOverridden =>
             /\ args.zip.some /\ http[1].zip = args.zip.val
             /\ lat = http[1].res[1] /\ lon = http[1].res[2]
             /\ pc \in {"fetch", "done"}
             /\ (pc = "done") = (Len(http) = 2)
             /\ Len(http) = 2 =>
                   /\ http[2].call = "weather"
                   /\ http[2].lat = http[1].res[1]
                   /\ http[2].lon = http[1].res[2]
             /\ file = FileOf(config))
    /\ [][~args.setup => (file' = file /\ (pc # "load" => config' = config))]_vars

C6_Witness ==
    /\ ZipOverridden /\ pc = "done" /\ Len(http) = 2
    /\ http[2].lat = 1 /\ http[2].lon = 0
    /\ config.latitude = 0 /\ config.longitude = 1
    /\ file = FileOf(config)

\* C7: every setup prompt follows the keep-or-replace rule: the result is
\* the current value when the input is empty after trimming whitespace, and
\* otherwise the input with its leading and trailing whitespace removed
\* (never the untrimmed line); with empty input the field is unchanged.
C7_KeepOrReplace ==
    (tty # <<>> /\ Last(tty).ok) =>
        LET e == Last(tty)
            n == Len(input)
        IN  /\ IF AllWhitespace(input)
               THEN e.result = e.current
               ELSE \E i \in 1..n, j \in 1..n :
                      /\ i <= j
                      /\ e.result = SubSeq(input, i, j)
                      /\ input[i] \notin Whitespace
                      /\ input[j] \notin Whitespace
                      /\ \A k \in (1..(i - 1)) \cup ((j + 1)..n) :
                             input[k] \in Whitespace
            /\ Len(tty) = 1 => config.api_key = e.result
            /\ Len(tty) = 2 => config.units = e.result
            /\ Len(tty) = 3 => zip_code = e.result

C7_Witness ==
    /\ Len(tty) = 2 /\ tty[2].ok
    /\ tty[2].current = Metric
    /\ input = <<" ", "a", "\n">>
    /\ config.units = <<"a">>

\* C8: in every run the configuration file is read at most once and written
\* at most once; a write happens only in a --setup run and only after all
\* setup prompts have completed.
C8_ReadWriteAtMostOnce ==
    /\ reads <= 1
    /\ writes <= 1
    /\ writes > 0 => (args.setup /\ PromptsDone)

C8_Witness ==
    pc = "done" /\ args.setup /\ reads = 1 /\ writes = 1 /\ file.valid

\* C9: for every condition label and every city name the display width
\* equals max(length of glyph line 4, length of the city name), and the left
\* segment of each of the four rows has exactly that width, the text being
\* centered with the extra space on the right when the padding is odd.
C9_SegmentsHaveDisplayWidth ==
    report # <<>> =>
        LET city  == json_city(json)
            art   == weather_art(json_description(json))
            texts == <<art[1], art[2], art[3], city>>
            width == Max(Len(art[4]), Len(city))
        IN  \A i \in 1..4 :
               LET pad == width - Len(texts[i])
               IN  /\ Len(report[i].left) = width
                   /\ pad >= 0
                   /\ report[i].left =
                        Spaces(pad \div 2) \o texts[i] \o Spaces(pad - pad \div 2)

\* C10: SetupFlow prompts in the order API key, units, ZIP; the Geocoder is
\* called at most once per flow, only after the API-key and units prompts,
\* exactly when the trimmed ZIP input is non-empty, with the API key as it
\* stands after the API-key prompt.
C10_SetupPromptOrder ==
    /\ Len(tty) <= 3
    /\ \A i \in 1..Len(tty) :
          tty[i].prompt = <<"Enter API key", "Enter units", "Enter ZIP code">>[i]
    /\ tty # <<>> => args.setup
    /\ args.setup =>
          /\ Len(http) <= 1
          /\ http # <<>> =>
                /\ http[1].call = "geocode"
                /\ PromptsDone
                /\ http[1].appid = tty[1].result
                /\ http[1].zip = tty[3].result
          /\ (PromptsDone /\ pc \in {"save", "done"}) =>
                ((Len(http) = 1) = ~AllWhitespace(input))

C10_Witness ==
    /\ args.setup /\ pc = "done" /\ Len(http) = 1
    /\ tty[1].current = <<"k">> /\ http[1].appid = <<"a">>
    /\ http[1].zip = <<"a", " ", "a">>

====
